---- MODULE Spec2Model ----
(***************************************************************************)
(* LCOE engine (hooks/useLcoe.ts, reference variant): WACC blender,        *)
(* discount factor sequence, construction phase, core and turnkey LCOE,    *)
(* step-aware orchestrator.                                                *)
(*                                                                         *)
(* Numbers.  The engine computes on IEEE doubles.  Here every `number` is  *)
(* a signed fixed-point value with Scale units per 1.0; products and       *)
(* quotients are truncated to that grid, as a double rounds to its own.    *)
(* Relations that the code only satisfies up to rounding are stated with   *)
(* an explicit tolerance in grid units.                                    *)
(***************************************************************************)
EXTENDS Integers, Sequences, FiniteSets

\* Fixed-point grid: 10^6 units per 1.0 (six decimals), Limb = 1000 splits
\* a value into two limbs so that products stay inside machine integers.
Scale == 10^6
Limb == 10^3

Abs(x) == IF x < 0 THEN -x ELSE x
Sign(x) == IF x < 0 THEN -1 ELSE 1
Max(a, b) == IF a >= b THEN a ELSE b
Min(a, b) == IF a <= b THEN a ELSE b

\* n as a number (n.000000)
Num(n) == n * Scale

\* a * b on doubles (a, b >= 0): exact limb product, truncated to the grid.
MulAbs(a, b) ==
  (a \div Limb) * (b \div Limb)
    + (((a \div Limb) * (b % Limb) + (a % Limb) * (b \div Limb))
         + (((a % Limb) * (b % Limb)) \div Limb)) \div Limb

Mul(a, b) == Sign(a) * Sign(b) * MulAbs(Abs(a), Abs(b))

\* a / b on doubles (b > 0): schoolbook long division to six decimals,
\* n digits of the given base at a time; exact floor of a * Scale / b.
RECURSIVE DivDigits(_, _, _, _, _)
DivDigits(r, b, q, base, n) ==
  IF n = 0 THEN q
  ELSE DivDigits((r * base) % b, b, q * base + (r * base) \div b, base, n - 1)

DivAbs(a, b) ==
  IF b < 2147483 THEN DivDigits(a % b, b, a \div b, 1000, 2)
  ELSE DivDigits(a % b, b, a \div b, 10, 6)

Div(a, b) == Sign(a) * Sign(b) * DivAbs(Abs(a), Abs(b))

\* Math.sqrt(x), x > 0: Newton iteration from (x+1)/2, which converges
\* to the grid for the growth factors 1+w the engine takes roots of.
RECURSIVE SqrtIter(_, _, _)
SqrtIter(x, y, n) ==
  IF n = 0 THEN y ELSE SqrtIter(x, (y + Div(x, y)) \div 2, n - 1)

Sqrt(x) == IF x <= 0 THEN 0 ELSE SqrtIter(x, (x + Scale) \div 2, 3)

\* Math.pow(x, n) for a non-negative integer n, by repeated squaring.
RECURSIVE PowInt(_, _)
PowInt(x, n) ==
  IF n <= 0 THEN Scale
  ELSE IF n = 1 THEN x
  ELSE IF n % 2 = 0 THEN PowInt(Mul(x, x), n \div 2)
  ELSE Mul(PowInt(Mul(x, x), n \div 2), x)

\* Math.pow(x, n + 0.5)
PowHalf(x, n) == Mul(PowInt(x, n), Sqrt(x))


\* x / n for an integer literal n of the source (x / 100, x / 1000, x / 3).
DivLit(x, n) == IF x < 0 THEN -((-x) \div n) ELSE x \div n

\* Math.round(x): nearest integer, halves toward +infinity; an integer count.
Round(x) == (x + Scale \div 2) \div Scale

MathPI == 3141593

\* Math.sin(x) for 0 <= x <= pi: reflection to [0, pi/2], then the Taylor
\* series through x^11/11!.
RECURSIVE SinSeries(_, _, _, _)
SinSeries(term, x2, k, acc) ==
  IF k > 11 THEN acc
  ELSE LET next == -(Mul(term, x2) \div ((k - 1) * k))
       IN SinSeries(next, x2, k + 2, acc + next)

Sin(x) ==
  LET y == IF 2 * x > MathPI THEN MathPI - x ELSE x
  IN Min(Scale, Max(0, SinSeries(y, Mul(y, y), 3, y)))

(***************************************************************************)
(* WACC blender                                                            *)
(***************************************************************************)
clampGearing(inputs) == DivLit(Min(Max(inputs.targetGearing, 0), Num(100)), 100)

calcNominalWacc(inputs) ==
  LET pi == DivLit(inputs.inflationRate, 100)
      gearing == clampGearing(inputs)
      costOfDebtNom == Mul(Scale + DivLit(inputs.costOfDebt, 100), Scale + pi) - Scale
      costOfEquityNom == Mul(Scale + DivLit(inputs.costOfEquity, 100), Scale + pi) - Scale
  IN [waccNomBlend |-> Mul(gearing, costOfDebtNom) + Mul(Scale - gearing, costOfEquityNom),
      costOfDebtNom |-> costOfDebtNom,
      costOfEquityNom |-> costOfEquityNom]

(***************************************************************************)
(* Phase D: discount factor sequence                                       *)
(***************************************************************************)
\* Mutant: the tranches applied without the L > 0 guard.
getOpW_NoGuard(costOfEquityReal, costOfDebtNom, gearing, pi, TL, declining, opYear) ==
  LET L == TL \div 3
      keReal == IF declining
                THEN IF opYear > 2 * L THEN DivLit(costOfEquityReal, 3)
                     ELSE IF opYear > L THEN DivLit(costOfEquityReal * 2, 3)
                     ELSE costOfEquityReal
                ELSE costOfEquityReal
      keNom == Mul(Scale + keReal, Scale + pi) - Scale
  IN Mul(gearing, costOfDebtNom) + Mul(Scale - gearing, keNom)

\* Mutant: each tranche entered one year early.
getOpW_OneYearEarly(costOfEquityReal, costOfDebtNom, gearing, pi, TL, declining, opYear) ==
  LET L == TL \div 3
      keReal == IF declining /\ L > 0
                THEN IF opYear >= 2 * L THEN DivLit(costOfEquityReal, 3)
                     ELSE IF opYear >= L THEN DivLit(costOfEquityReal * 2, 3)
                     ELSE costOfEquityReal
                ELSE costOfEquityReal
      keNom == Mul(Scale + keReal, Scale + pi) - Scale
  IN Mul(gearing, costOfDebtNom) + Mul(Scale - gearing, keNom)

\* Blended nominal rate of operational year opYear (1-based).
getOpW(costOfEquityReal, costOfDebtNom, gearing, pi, TL, declining, opYear) ==
  LET L == TL \div 3
      keReal == IF declining /\ L > 0
                THEN IF opYear > 2 * L THEN DivLit(costOfEquityReal, 3)
                     ELSE IF opYear > L THEN DivLit(costOfEquityReal * 2, 3)
                     ELSE costOfEquityReal
                ELSE costOfEquityReal
      keNom == Mul(Scale + keReal, Scale + pi) - Scale
  IN Mul(gearing, costOfDebtNom) + Mul(Scale - gearing, keNom)

\* Mutant: cumProduct advanced before the factor is taken.
RECURSIVE dfLoop_AdvanceFirst(_, _, _, _, _, _, _, _, _)
dfLoop_AdvanceFirst(costOfEquityReal, costOfDebtNom, gearing, pi, TL, declining, k, cumProduct, df) ==
  IF k >= TL THEN df
  ELSE LET w == getOpW(costOfEquityReal, costOfDebtNom, gearing, pi, TL, declining, k + 1)
       IN dfLoop_AdvanceFirst(costOfEquityReal, costOfDebtNom, gearing, pi, TL, declining, k + 1,
                              Mul(cumProduct, Scale + w),
                              Append(df, Div(Scale, Mul(Mul(cumProduct, Scale + w),
                                                        Sqrt(Scale + w)))))

\* The second loop of buildDfArray: df[k] is taken before cumProduct advances.
RECURSIVE dfLoop(_, _, _, _, _, _, _, _, _)
dfLoop(costOfEquityReal, costOfDebtNom, gearing, pi, TL, declining, k, cumProduct, df) ==
  IF k >= TL THEN df
  ELSE LET w == getOpW(costOfEquityReal, costOfDebtNom, gearing, pi, TL, declining, k + 1)
       IN dfLoop(costOfEquityReal, costOfDebtNom, gearing, pi, TL, declining, k + 1,
                 Mul(cumProduct, Scale + w),
                 Append(df, Div(Scale, Mul(cumProduct, Sqrt(Scale + w)))))

\* df is 1-based here: df[k + 1] is the source's df[k].
buildDfArray(costOfEquityReal, costOfDebtNom, gearing, pi, usefulLife, declining, tcOffset) ==
  LET baseKeNom == Mul(Scale + costOfEquityReal, Scale + pi) - Scale
      baseWacc == Mul(gearing, costOfDebtNom) + Mul(Scale - gearing, baseKeNom)
  IN dfLoop(costOfEquityReal, costOfDebtNom, gearing, pi, usefulLife, declining, 0,
            PowInt(Scale + baseWacc, tcOffset), << >>)

(***************************************************************************)
(* Phases A + B + C: construction cost build-up and capitalized financing  *)
(***************************************************************************)
\* A Float64Array of length n filled from f[0] .. f[n-1].  Arrays are
\* sequences here: element t of the source is element t + 1 of the sequence.
RECURSIVE Float64Array(_, _)
Float64Array(f, n) == IF n <= 0 THEN << >> ELSE Append(Float64Array(f, n - 1), f[n - 1])

\* Sum of a[1] .. a[n], accumulated in index order.
RECURSIVE SumTo(_, _)
SumTo(a, n) == IF n <= 0 THEN 0 ELSE SumTo(a, n - 1) + a[n]

\* Phase A: S-curve weights sin(pi (t + 0.5) / Tc), t = 0 .. Tc-1.
sCurveWeights(Tc) ==
  Float64Array([t \in 0..(Tc - 1) |-> Sin((MathPI * (2 * t + 1)) \div (2 * Tc))], Tc)

\* Phase A: nominal draw of each construction period.
nominalDraws(overnightCost, pi, Tc, inflationMode) ==
  LET draws(weights, weightSum, capexCod) ==
        Float64Array([t \in 0..(Tc - 1) |->
          IF inflationMode = "lump_sum"
          THEN Mul(capexCod, Div(weights[t + 1], weightSum))
          ELSE Mul(Mul(overnightCost, Div(weights[t + 1], weightSum)),
                   PowHalf(Scale + pi, t))], Tc)
      summed(weights) ==
        draws(weights, SumTo(weights, Tc), Mul(overnightCost, PowInt(Scale + pi, Tc)))
  IN summed(sCurveWeights(Tc))

\* Mid-year discount factor to SOC of construction period t: (1+w)^-(t+0.5).
discountToSOC(waccNomBlend, t) == Div(Scale, PowHalf(Scale + waccNomBlend, t))

\* Mutant: year-end instead of mid-year compounding.
compoundToCOD_YearEnd(waccNomBlend, Tc, t) == PowInt(Scale + waccNomBlend, Tc - t)

\* Mutant: discounting to SOC where compounding to COD is meant.
compoundToCOD_Discounts(waccNomBlend, Tc, t) == Div(Scale, PowHalf(Scale + waccNomBlend, t))

\* Mid-year compounding factor to COD of period t: (1+w)^(Tc-(t+0.5)).
compoundToCOD(waccNomBlend, Tc, t) == PowHalf(Scale + waccNomBlend, Tc - t - 1)

\* Inflation-only compounding to COD (book value); lump-sum draws are
\* already COD-year nominal.
inflationToCOD(pi, Tc, t, inflationMode) ==
  IF inflationMode = "lump_sum" THEN Scale ELSE PowHalf(Scale + pi, Tc - t - 1)

\* The RAB split of one period's interest.
surchargedPart(interest, rabFrac) == Mul(interest, rabFrac)

\* Mutant: the whole interest capitalized, whatever was surcharged.
capitalizedPart_All(interest, rabFrac) == interest

capitalizedPart(interest, rabFrac) == Mul(interest, Scale - rabFrac)

\* Mutant: the whole interest, surcharged part included, added to the balance.
RECURSIVE idcLoop_SurchargeInBalance(_, _, _, _, _, _, _, _, _, _, _)
idcLoop_SurchargeInBalance(cNom, Tc, idcMode, gearing, waccNomBlend, costOfDebtNom, rabFrac, t, bal, acc, capIdcPerYear) ==
  IF t >= Tc
  THEN [pvSurchargedIdcSOC |-> acc[1], fvSurchargedCOD |-> acc[2],
        capIdcPerYear |-> capIdcPerYear, interestPerYear |-> acc[3], balance |-> bal]
  ELSE LET draw == IF idcMode = "afudc_whole_wacc" THEN cNom[t + 1] ELSE Mul(cNom[t + 1], gearing)
           rate == IF idcMode = "afudc_whole_wacc" THEN waccNomBlend ELSE costOfDebtNom
           interest == Mul(bal + DivLit(draw, 2), rate)
           surcharged == surchargedPart(interest, rabFrac)
           capitalized == capitalizedPart(interest, rabFrac)
           dfSoc == discountToSOC(waccNomBlend, t)
           compWacc == compoundToCOD(waccNomBlend, Tc, t)
       IN idcLoop_SurchargeInBalance(cNom, Tc, idcMode, gearing, waccNomBlend, costOfDebtNom,
                                     rabFrac, t + 1, bal + draw + interest,
                                     <<acc[1] + Mul(surcharged, dfSoc),
                                       acc[2] + Mul(surcharged, compWacc),
                                       Append(acc[3], interest)>>,
                                     Append(capIdcPerYear, capitalized))

\* Mutant: debt-only interest accrued on the whole draw, not its debt tranche.
RECURSIVE idcLoop_WholeDraw(_, _, _, _, _, _, _, _, _, _, _)
idcLoop_WholeDraw(cNom, Tc, idcMode, gearing, waccNomBlend, costOfDebtNom, rabFrac, t, bal, acc, capIdcPerYear) ==
  IF t >= Tc
  THEN [pvSurchargedIdcSOC |-> acc[1], fvSurchargedCOD |-> acc[2],
        capIdcPerYear |-> capIdcPerYear, interestPerYear |-> acc[3], balance |-> bal]
  ELSE LET draw == cNom[t + 1]
           rate == IF idcMode = "afudc_whole_wacc" THEN waccNomBlend ELSE costOfDebtNom
           interest == Mul(bal + DivLit(draw, 2), rate)
           surcharged == surchargedPart(interest, rabFrac)
           capitalized == capitalizedPart(interest, rabFrac)
           dfSoc == discountToSOC(waccNomBlend, t)
           compWacc == compoundToCOD(waccNomBlend, Tc, t)
       IN idcLoop_WholeDraw(cNom, Tc, idcMode, gearing, waccNomBlend, costOfDebtNom,
                            rabFrac, t + 1, bal + draw + capitalized,
                            <<acc[1] + Mul(surcharged, dfSoc),
                              acc[2] + Mul(surcharged, compWacc),
                              Append(acc[3], interest)>>,
                            Append(capIdcPerYear, capitalized))

\* Phase B: the accrual loop.  bal is K (whole capital) or D (debt tranche);
\* per period the interest on (bal + half the period's financed draw) is split
\* by rabFrac into a surcharged and a capitalized part.  acc carries
\* pvSurchargedIdcSOC, fvSurchargedCOD and the interest of each period so far.
RECURSIVE idcLoop(_, _, _, _, _, _, _, _, _, _, _)
idcLoop(cNom, Tc, idcMode, gearing, waccNomBlend, costOfDebtNom, rabFrac, t, bal, acc, capIdcPerYear) ==
  IF t >= Tc
  THEN [pvSurchargedIdcSOC |-> acc[1], fvSurchargedCOD |-> acc[2],
        capIdcPerYear |-> capIdcPerYear, interestPerYear |-> acc[3], balance |-> bal]
  ELSE LET draw == IF idcMode = "afudc_whole_wacc" THEN cNom[t + 1] ELSE Mul(cNom[t + 1], gearing)
           rate == IF idcMode = "afudc_whole_wacc" THEN waccNomBlend ELSE costOfDebtNom
           interest == Mul(bal + DivLit(draw, 2), rate)
           surcharged == surchargedPart(interest, rabFrac)
           capitalized == capitalizedPart(interest, rabFrac)
           dfSoc == discountToSOC(waccNomBlend, t)
           compWacc == compoundToCOD(waccNomBlend, Tc, t)
       IN idcLoop(cNom, Tc, idcMode, gearing, waccNomBlend, costOfDebtNom, rabFrac, t + 1,
                  bal + draw + capitalized,
                  <<acc[1] + Mul(surcharged, dfSoc), acc[2] + Mul(surcharged, compWacc),
                    Append(acc[3], interest)>>,
                  Append(capIdcPerYear, capitalized))

\* Mutant: the capitalized interest rolled into the overnight bucket.
RECURSIVE rollupLoop_IdcInOcc(_, _, _, _, _, _, _, _)
rollupLoop_IdcInOcc(cNom, capIdcPerYear, Tc, waccNomBlend, pi, inflationMode, t, acc) ==
  IF t >= Tc THEN acc
  ELSE LET dfSoc == discountToSOC(waccNomBlend, t)
           compWacc == compoundToCOD(waccNomBlend, Tc, t)
           compInfl == inflationToCOD(pi, Tc, t, inflationMode)
       IN rollupLoop_IdcInOcc(cNom, capIdcPerYear, Tc, waccNomBlend, pi, inflationMode, t + 1,
                     [pvOccSOC |-> acc.pvOccSOC + Mul(cNom[t + 1] + capIdcPerYear[t + 1], dfSoc),
                      pvFinancingSOC |-> acc.pvFinancingSOC + Mul(capIdcPerYear[t + 1], dfSoc),
                      fvEconomicCOD |-> acc.fvEconomicCOD + Mul(cNom[t + 1], compWacc),
                      fvOccBookCOD |-> acc.fvOccBookCOD + Mul(cNom[t + 1], compInfl)])

\* Phase C: the roll-up loop over the draws and the capitalized interest.
RECURSIVE rollupLoop(_, _, _, _, _, _, _, _)
rollupLoop(cNom, capIdcPerYear, Tc, waccNomBlend, pi, inflationMode, t, acc) ==
  IF t >= Tc THEN acc
  ELSE LET dfSoc == discountToSOC(waccNomBlend, t)
           compWacc == compoundToCOD(waccNomBlend, Tc, t)
           compInfl == inflationToCOD(pi, Tc, t, inflationMode)
       IN rollupLoop(cNom, capIdcPerYear, Tc, waccNomBlend, pi, inflationMode, t + 1,
                     [pvOccSOC |-> acc.pvOccSOC + Mul(cNom[t + 1], dfSoc),
                      pvFinancingSOC |-> acc.pvFinancingSOC + Mul(capIdcPerYear[t + 1], dfSoc),
                      fvEconomicCOD |-> acc.fvEconomicCOD + Mul(cNom[t + 1], compWacc),
                      fvOccBookCOD |-> acc.fvOccBookCOD + Mul(cNom[t + 1], compInfl)])

\* Mutant: the ratio taken upside down.
occRatio_Inverted(fvOccBookCOD, fvEconomicCOD) ==
  IF fvOccBookCOD > 0 THEN Div(fvEconomicCOD, fvOccBookCOD) ELSE Scale

\* Turnkey decomposition: COD book value (inflation only) over economic value.
occRatio(fvOccBookCOD, fvEconomicCOD) ==
  IF fvEconomicCOD > 0 THEN Div(fvOccBookCOD, fvEconomicCOD) ELSE Scale

\* Mutant: the Tc = 0 result with a compounded value at COD.
identityConstruction_Compounded(overnightCost) ==
  [pvOccSOC |-> overnightCost, pvFinancingSOC |-> 0, pvCapexSOC |-> overnightCost,
   fvEconomicCOD |-> overnightCost + Scale, occRatioCOD |-> Scale,
   pvSurchargedIdcSOC |-> 0, fvSurchargedCOD |-> 0]

\* The Tc = 0 early return.
identityConstruction(overnightCost) ==
  [pvOccSOC |-> overnightCost, pvFinancingSOC |-> 0, pvCapexSOC |-> overnightCost,
   fvEconomicCOD |-> overnightCost, occRatioCOD |-> Scale,
   pvSurchargedIdcSOC |-> 0, fvSurchargedCOD |-> 0]

\* Mutant: the decommissioning cost drawn with the overnight cost.
accrual_WithDecom(inputs, inflationMode, idcMode, rabFrac) ==
  LET Tc == Max(0, Round(inputs.constructionTime))
      phaseB(cNom, wacc) ==
        [cNom |-> cNom,
         idc |-> idcLoop(cNom, Tc, idcMode, clampGearing(inputs), wacc.waccNomBlend,
                         wacc.costOfDebtNom, rabFrac, 0, 0, <<0, 0, << >> >>, << >>)]
  IN phaseB(nominalDraws(inputs.overnightCost + inputs.decommissioningCost,
                         DivLit(inputs.inflationRate, 100), Tc, inflationMode),
            calcNominalWacc(inputs))

\* Phases A and B for given inputs: the draws and the outcome of the accrual loop.
accrual(inputs, inflationMode, idcMode, rabFrac) ==
  LET Tc == Max(0, Round(inputs.constructionTime))
      phaseB(cNom, wacc) ==
        [cNom |-> cNom,
         idc |-> idcLoop(cNom, Tc, idcMode, clampGearing(inputs), wacc.waccNomBlend,
                         wacc.costOfDebtNom, rabFrac, 0, 0, <<0, 0, << >> >>, << >>)]
  IN phaseB(nominalDraws(inputs.overnightCost, DivLit(inputs.inflationRate, 100), Tc,
                         inflationMode),
            calcNominalWacc(inputs))

buildConstructionPhase(inputs, inflationMode, idcMode, rabFrac) ==
  LET Tc == Max(0, Round(inputs.constructionTime))
      pi == DivLit(inputs.inflationRate, 100)
      result(idc, c) ==
        [pvOccSOC |-> c.pvOccSOC, pvFinancingSOC |-> c.pvFinancingSOC,
         pvCapexSOC |-> c.pvOccSOC + c.pvFinancingSOC,
         fvEconomicCOD |-> c.fvEconomicCOD,
         occRatioCOD |-> occRatio(c.fvOccBookCOD, c.fvEconomicCOD),
         pvSurchargedIdcSOC |-> idc.pvSurchargedIdcSOC,
         fvSurchargedCOD |-> idc.fvSurchargedCOD]
      phaseC(ab, waccNomBlend) ==
        result(ab.idc,
               rollupLoop(ab.cNom, ab.idc.capIdcPerYear, Tc, waccNomBlend, pi, inflationMode, 0,
                          [pvOccSOC |-> 0, pvFinancingSOC |-> 0, fvEconomicCOD |-> 0,
                           fvOccBookCOD |-> 0]))
  IN IF Tc = 0 THEN identityConstruction(inputs.overnightCost)
     ELSE phaseC(accrual(inputs, inflationMode, idcMode, rabFrac),
                 calcNominalWacc(inputs).waccNomBlend)

(***************************************************************************)
(* Core LCOE (single or double life)                                       *)
(***************************************************************************)
\* Mutant: the guard's result with the total left non-zero.
zero_TotalLeft ==
  [totalLcoe |-> Scale, occLcoe |-> 0, financingLcoe |-> 0, fuelLcoe |-> 0, omLcoe |-> 0,
   decommissioningLcoe |-> 0, surchargedIdcLcoe |-> 0]

zero ==
  [totalLcoe |-> 0, occLcoe |-> 0, financingLcoe |-> 0, fuelLcoe |-> 0, omLcoe |-> 0,
   decommissioningLcoe |-> 0, surchargedIdcLcoe |-> 0]

\* Mutant: the fund targets the real cost, not the inflated end-of-life cost.
annualDecomPayment_RealTarget(decommissioningCost, pi, Tc, TL) ==
  LET decomFundRateReal == Scale \div 100
      decomFundRateNom == Mul(Scale + decomFundRateReal, Scale + pi) - Scale
  IN IF decomFundRateNom > 0 /\ TL > 0
     THEN Mul(decommissioningCost,
              Div(decomFundRateNom, PowInt(Scale + decomFundRateNom, TL) - Scale))
     ELSE IF TL > 0 THEN DivLit(decommissioningCost, TL) ELSE 0

\* Decommissioning sinking fund: level payment reaching the end-of-life
\* nominal cost at the Fisher-converted 1% real fund rate.
annualDecomPayment(decommissioningCost, pi, Tc, TL) ==
  LET decomFundRateReal == Scale \div 100
      decomFundRateNom == Mul(Scale + decomFundRateReal, Scale + pi) - Scale
      futureDecomCost == Mul(decommissioningCost, PowInt(Scale + pi, Tc + TL))
  IN IF decomFundRateNom > 0 /\ TL > 0
     THEN Mul(futureDecomCost,
              Div(decomFundRateNom, PowInt(Scale + decomFundRateNom, TL) - Scale))
     ELSE IF TL > 0 THEN DivLit(futureDecomCost, TL) ELSE 0

\* Mutant: operating costs escalated from COD, the construction years dropped.
escalation_FromCOD(pi, Tc, k) == PowHalf(Scale + pi, k)

\* Price level of operational year k (0-based), mid-year, counted from the
\* start of construction: (1+pi)^(Tc+k+0.5).
escalation(pi, Tc, k) == PowHalf(Scale + pi, Tc + k)

\* Mutant: the decommissioning payment escalated like fuel and O&M.
RECURSIVE opexLoop_DecomEscalated(_, _, _, _, _, _, _, _, _, _)
opexLoop_DecomEscalated(annualMwh, baseOmCost, baseFuelCost, annualDecom, pi, Tc, df, k, hi, acc) ==
  IF k >= hi THEN acc
  ELSE LET d == df[k + 1]
           esc == escalation(pi, Tc, k)
       IN opexLoop_DecomEscalated(annualMwh, baseOmCost, baseFuelCost, annualDecom, pi, Tc, df,
                                  k + 1, hi,
                                  [pvEnergy |-> acc.pvEnergy + Mul(annualMwh, d),
                                   pvOm |-> acc.pvOm + Mul(Mul(baseOmCost, esc), d),
                                   pvFuel |-> acc.pvFuel + Mul(Mul(baseFuelCost, esc), d),
                                   pvDecom |-> acc.pvDecom + Mul(Mul(annualDecom, esc), d)])

\* The operating-years loop over k = lo .. hi-1: discounted energy, O&M,
\* fuel and decommissioning payment, each escalated by (1+pi)^(Tc+k+0.5).
RECURSIVE opexLoop(_, _, _, _, _, _, _, _, _, _)
opexLoop(annualMwh, baseOmCost, baseFuelCost, annualDecom, pi, Tc, df, k, hi, acc) ==
  IF k >= hi THEN acc
  ELSE LET d == df[k + 1]
           esc == escalation(pi, Tc, k)
       IN opexLoop(annualMwh, baseOmCost, baseFuelCost, annualDecom, pi, Tc, df, k + 1, hi,
                   [pvEnergy |-> acc.pvEnergy + Mul(annualMwh, d),
                    pvOm |-> acc.pvOm + Mul(Mul(baseOmCost, esc), d),
                    pvFuel |-> acc.pvFuel + Mul(Mul(baseFuelCost, esc), d),
                    pvDecom |-> acc.pvDecom + Mul(annualDecom, d)])

noPv == [pvEnergy |-> 0, pvOm |-> 0, pvFuel |-> 0, pvDecom |-> 0]

\* Mutant: the memo line counted in the total.
totalPvCost_WithMemo(pvOccSOC, pvFinancingSOC, pvSurchargedIdcSOC, pvOm, pvFuel, pvDecom) ==
  pvOccSOC + pvFinancingSOC + pvSurchargedIdcSOC + pvOm + pvFuel + pvDecom

\* The owner's total PV cost.  pvSurchargedIdcSOC is a memo line only: it is
\* in scope but not added to the total.
totalPvCost(pvOccSOC, pvFinancingSOC, pvSurchargedIdcSOC, pvOm, pvFuel, pvDecom) ==
  pvOccSOC + pvFinancingSOC + pvOm + pvFuel + pvDecom

\* Annual generation, MWh per kW: loadHours / 1000 when loadHours > 0.
annualMwhOf(inputs) == IF inputs.loadHours > 0 THEN DivLit(inputs.loadHours, 1000) ELSE 0

\* The two half figures of a dual-life result: the first half of the life
\* carries the whole capital cost, the second only its own operating costs.
firstHalfLcoe(pvCost1, pvE1) == IF pvE1 > 0 THEN Div(pvCost1, pvE1) ELSE 0
secondHalfLcoe(pvCost2, pvE2) == IF pvE2 > 0 THEN Div(pvCost2, pvE2) ELSE 0

\* Mutant: the dual-life total as the arithmetic mean of the half figures.
dualLifeTotal_ArithmeticMean(pvCostTotal, pvEnergyTotal, halfLcoe1, halfLcoe2) ==
  DivLit(halfLcoe1 + halfLcoe2, 2)

\* totalLcoe of a dual-life result: PV of all costs over PV of all energy.
\* The half figures are reported beside it and do not enter it.
dualLifeTotal(pvCostTotal, pvEnergyTotal, halfLcoe1, halfLcoe2) ==
  Div(pvCostTotal, pvEnergyTotal)

\* Mutant: the dual-life split at floor(TL / 2).
firstLifeYears_Floor(TL) == TL \div 2

\* N1 = Math.ceil(TL / 2): the years of the first life.
firstLifeYears(TL) == (TL + 1) \div 2

computeCoreLcoe(inputs, pvOccSOC, pvFinancingSOC, pvSurchargedIdcSOC, df, twoLives) ==
  LET pi == DivLit(inputs.inflationRate, 100)
      TL == Max(Round(inputs.usefulLife), 0)
      Tc == Max(Round(inputs.constructionTime), 0)
      annualMwh == annualMwhOf(inputs)
      baseFuelCost == Mul(inputs.fuelCost, annualMwh)
      baseOmCost == inputs.omCost
      N1 == firstLifeYears(TL)
      single(h1) ==
        IF h1.pvEnergy <= 0 THEN zero
        ELSE [totalLcoe |-> Div(totalPvCost(pvOccSOC, pvFinancingSOC, pvSurchargedIdcSOC,
                                            h1.pvOm, h1.pvFuel, h1.pvDecom),
                                h1.pvEnergy),
              occLcoe |-> Div(pvOccSOC, h1.pvEnergy),
              financingLcoe |-> Div(pvFinancingSOC, h1.pvEnergy),
              fuelLcoe |-> Div(h1.pvFuel, h1.pvEnergy),
              omLcoe |-> Div(h1.pvOm, h1.pvEnergy),
              decommissioningLcoe |-> Div(h1.pvDecom, h1.pvEnergy),
              surchargedIdcLcoe |-> IF pvSurchargedIdcSOC > 0
                                    THEN Div(pvSurchargedIdcSOC, h1.pvEnergy) ELSE 0]
      double(h1, h2, pvEnergyTotal) ==
        IF pvEnergyTotal <= 0 THEN zero
        ELSE [totalLcoe |-> dualLifeTotal(totalPvCost(pvOccSOC, pvFinancingSOC,
                                                      pvSurchargedIdcSOC,
                                                      h1.pvOm + h2.pvOm, h1.pvFuel + h2.pvFuel,
                                                      h1.pvDecom + h2.pvDecom),
                                          pvEnergyTotal,
                                          firstHalfLcoe(pvOccSOC + pvFinancingSOC + h1.pvOm
                                                          + h1.pvFuel + h1.pvDecom, h1.pvEnergy),
                                          secondHalfLcoe(h2.pvOm + h2.pvFuel + h2.pvDecom,
                                                         h2.pvEnergy)),
              occLcoe |-> Div(pvOccSOC, pvEnergyTotal),
              financingLcoe |-> Div(pvFinancingSOC, pvEnergyTotal),
              fuelLcoe |-> Div(h1.pvFuel + h2.pvFuel, pvEnergyTotal),
              omLcoe |-> Div(h1.pvOm + h2.pvOm, pvEnergyTotal),
              decommissioningLcoe |-> Div(h1.pvDecom + h2.pvDecom, pvEnergyTotal),
              surchargedIdcLcoe |-> IF pvSurchargedIdcSOC > 0
                                    THEN Div(pvSurchargedIdcSOC, pvEnergyTotal) ELSE 0,
              halfLcoe1 |-> firstHalfLcoe(pvOccSOC + pvFinancingSOC + h1.pvOm + h1.pvFuel
                                            + h1.pvDecom, h1.pvEnergy),
              halfLcoe2 |-> secondHalfLcoe(h2.pvOm + h2.pvFuel + h2.pvDecom, h2.pvEnergy)]
      halves(h1, h2) == double(h1, h2, h1.pvEnergy + h2.pvEnergy)
      funded(annualDecom) ==
        IF ~twoLives
        THEN single(opexLoop(annualMwh, baseOmCost, baseFuelCost, annualDecom, pi, Tc, df,
                             0, TL, noPv))
        ELSE halves(opexLoop(annualMwh, baseOmCost, baseFuelCost, annualDecom, pi, Tc, df,
                             0, N1, noPv),
                    opexLoop(annualMwh, baseOmCost, baseFuelCost, annualDecom, pi, Tc, df,
                             N1, TL, noPv))
  IN IF annualMwh <= 0 \/ TL <= 0 THEN zero
     ELSE funded(annualDecomPayment(inputs.decommissioningCost, pi, Tc, TL))

(***************************************************************************)
(* Economic turnkey model                                                  *)
(***************************************************************************)
\* Number of sale tranches the developer is paid in.
MaxTranches == 3

\* The developer's side of computeTurnkeyLcoe: net recovery target, buyer
\* discount factors (offset 0), annuity factor, instalment and sale price.
\* Mutant: the surcharges netted without the floor at zero.
netRecovery_Unclamped(fvEconomicCOD, fvSurchargedCOD) == fvEconomicCOD - fvSurchargedCOD

\* Net COD recovery: what the developer still has to recover after the
\* surcharges collected during construction, never negative.
netRecovery(fvEconomicCOD, fvSurchargedCOD) == Max(0, fvEconomicCOD - fvSurchargedCOD)

\* Mutant: the target split evenly, without the buyer's discount factors.
annuityPayment_Undiscounted(fvEconomicNetCOD, annuityFactor) ==
  DivLit(fvEconomicNetCOD, MaxTranches)

\* The level instalment whose value on the buyer's curve is the net target.
annuityPayment(fvEconomicNetCOD, annuityFactor) ==
  IF annuityFactor > 0 THEN Div(fvEconomicNetCOD, annuityFactor) ELSE fvEconomicNetCOD

\* Mutant: the sale price is one instalment.
salePrice_OneInstalment(annualPayment, nTranches) == annualPayment

salePrice(annualPayment, nTranches) == annualPayment * nTranches

turnkeySale(inputs, fvEconomicCOD, fvSurchargedCOD, declining) ==
  LET pi == DivLit(inputs.inflationRate, 100)
      TL == Max(Round(inputs.usefulLife), 0)
      fvEconomicNetCOD == netRecovery(fvEconomicCOD, fvSurchargedCOD)
      kdNom == calcNominalWacc(inputs).costOfDebtNom
      keReal == DivLit(inputs.costOfEquity, 100)
      gearingFrac == clampGearing(inputs)
      nTranches == Min(MaxTranches, TL)
      tranches(buyerDf, annuityFactor, annualPayment) ==
        [fvEconomicNetCOD |-> fvEconomicNetCOD, buyerDf |-> buyerDf, nTranches |-> nTranches,
         annuityFactor |-> annuityFactor, annualPayment |-> annualPayment,
         developerSalePrice |-> salePrice(annualPayment, nTranches),
         pvSaleTranches |-> SumTo([k \in 1..nTranches |-> Mul(annualPayment, buyerDf[k])],
                                  nTranches)]
      annuity(buyerDf, annuityFactor) ==
        tranches(buyerDf, annuityFactor, annuityPayment(fvEconomicNetCOD, annuityFactor))
      buyer(buyerDf) == annuity(buyerDf, SumTo(buyerDf, nTranches))
  IN buyer(buildDfArray(keReal, kdNom, gearingFrac, pi, TL, declining, 0))

computeTurnkeyLcoe(inputs, fvEconomicCOD, fvSurchargedCOD, occRatioCOD, declining) ==
  LET pi == DivLit(inputs.inflationRate, 100)
      TL == Max(Round(inputs.usefulLife), 0)
      Tc == Max(Round(inputs.constructionTime), 0)
      annualMwh == annualMwhOf(inputs)
      baseFuelCost == Mul(inputs.fuelCost, annualMwh)
      baseOmCost == inputs.omCost
      fvOccBookCOD == Mul(occRatioCOD, fvEconomicCOD)
      result(sale, pv, occRatioNet) ==
        IF pv.pvEnergy <= 0 THEN zero
        ELSE [totalLcoe |-> Div(sale.pvSaleTranches + pv.pvOm + pv.pvFuel + pv.pvDecom,
                                pv.pvEnergy),
              occLcoe |-> Div(Mul(sale.pvSaleTranches, occRatioNet), pv.pvEnergy),
              financingLcoe |-> Div(Mul(sale.pvSaleTranches, Scale - occRatioNet), pv.pvEnergy),
              fuelLcoe |-> Div(pv.pvFuel, pv.pvEnergy),
              omLcoe |-> Div(pv.pvOm, pv.pvEnergy),
              decommissioningLcoe |-> Div(pv.pvDecom, pv.pvEnergy),
              surchargedIdcLcoe |-> 0,
              developerSalePrice |-> sale.developerSalePrice]
      bought(sale) ==
        result(sale,
               opexLoop(annualMwh, baseOmCost, baseFuelCost,
                        annualDecomPayment(inputs.decommissioningCost, pi, Tc, TL),
                        pi, Tc, sale.buyerDf, 0, TL, noPv),
               IF sale.fvEconomicNetCOD > 0
               THEN Min(Div(fvOccBookCOD, sale.fvEconomicNetCOD), Scale)
               ELSE Scale)
  IN IF annualMwh <= 0 \/ TL <= 0 THEN zero
     ELSE bought(turnkeySale(inputs, fvEconomicCOD, fvSurchargedCOD, declining))

(***************************************************************************)
(* Step-aware orchestrator                                                 *)
(***************************************************************************)
\* Mutant: the RAB toggle without effect.
methodology_NoRab(step, adv) ==
  [inflationMode |-> IF step = 1 THEN "lump_sum" ELSE "dynamic",
   idcMode |-> IF step = 1 THEN "afudc_whole_wacc" ELSE "debt_only",
   rabFrac |-> 0,
   declining |-> step = 3 /\ adv.decliningWacc,
   twoLives |-> step = 3 /\ adv.twoLives,
   turnkey |-> step = 3 /\ adv.turnkey]

\* Mutant: the advanced toggles honoured in every step.
methodology_TogglesEverywhere(step, adv) ==
  [inflationMode |-> IF step = 1 THEN "lump_sum" ELSE "dynamic",
   idcMode |-> IF step = 1 THEN "afudc_whole_wacc" ELSE "debt_only",
   rabFrac |-> IF adv.rabEnabled THEN Scale ELSE 0,
   declining |-> adv.decliningWacc,
   twoLives |-> adv.twoLives,
   turnkey |-> adv.turnkey]

\* Mutant: dual life taking precedence over turnkey.
methodology_DualLifeFirst(step, adv) ==
  [inflationMode |-> IF step = 1 THEN "lump_sum" ELSE "dynamic",
   idcMode |-> IF step = 1 THEN "afudc_whole_wacc" ELSE "debt_only",
   rabFrac |-> IF step = 3 /\ adv.rabEnabled THEN Scale ELSE 0,
   declining |-> step = 3 /\ adv.decliningWacc,
   twoLives |-> step = 3 /\ adv.twoLives,
   turnkey |-> step = 3 /\ adv.turnkey /\ ~adv.twoLives]

\* The step-dependent modes of calculateLcoe.
methodology(step, adv) ==
  [inflationMode |-> IF step = 1 THEN "lump_sum" ELSE "dynamic",
   idcMode |-> IF step = 1 THEN "afudc_whole_wacc" ELSE "debt_only",
   rabFrac |-> IF step = 3 /\ adv.rabEnabled THEN Scale ELSE 0,
   declining |-> step = 3 /\ adv.decliningWacc,
   twoLives |-> step = 3 /\ adv.twoLives,
   turnkey |-> step = 3 /\ adv.turnkey]

\* Mutant: the discount factors anchored at COD when the toggle says so.
valuationOffset_AtCod(adv, Tc) == IF adv.valuationPoint = "cod" THEN 0 ELSE Tc

\* Valuation point: always start of construction, whatever adv.valuationPoint.
valuationOffset(adv, Tc) == Tc

\* precomputed is << >> when the optional argument is absent, else
\* <<[ConstructionResult fields, df]>>.
calculateLcoe(inputs, step, adv, precomputed) ==
  LET TL == Max(Round(inputs.usefulLife), 0)
      Tc == Max(Round(inputs.constructionTime), 0)
      m == methodology(step, adv)
      tcOffset == valuationOffset(adv, Tc)
      dispatch(constr, df) ==
        IF m.turnkey
        THEN computeTurnkeyLcoe(inputs, constr.fvEconomicCOD, constr.fvSurchargedCOD,
                                constr.occRatioCOD, m.declining)
        ELSE computeCoreLcoe(inputs, constr.pvOccSOC, constr.pvFinancingSOC,
                             constr.pvSurchargedIdcSOC, df, m.twoLives)
  IN dispatch(IF precomputed # << >> THEN precomputed[1]
              ELSE buildConstructionPhase(inputs, m.inflationMode, m.idcMode, m.rabFrac),
              IF precomputed # << >> THEN precomputed[1].df
              ELSE buildDfArray(DivLit(inputs.costOfEquity, 100),
                                calcNominalWacc(inputs).costOfDebtNom,
                                clampGearing(inputs), DivLit(inputs.inflationRate, 100),
                                TL, m.declining, tcOffset))

(***************************************************************************)
(* The engine under its callers                                            *)
(***************************************************************************)
\* Largest useful life and construction time (years) drawn as inputs.
MaxTL == 9
MaxTc == 3

\* The sensitivity sweep varies two inputs at a time around the baseline.
SweepVars == 2

\* Baseline inputs: the application defaults at reduced magnitudes.
Base ==
  [usefulLife |-> Num(9), overnightCost |-> Num(100), constructionTime |-> Num(3),
   costOfEquity |-> Num(9), costOfDebt |-> Num(4), targetGearing |-> Num(60),
   fuelCost |-> Num(2), omCost |-> Num(10), loadHours |-> Num(2000),
   decommissioningCost |-> Num(50), rabProportion |-> Num(50), inflationRate |-> Num(2)]

InputGrid ==
  [usefulLife : {Num(n) : n \in 0..MaxTL},
   overnightCost : {Base.overnightCost},
   constructionTime : {Num(n) : n \in 0..MaxTc},
   costOfEquity : {Base.costOfEquity},
   costOfDebt : {Num(4), 0},
   targetGearing : {0, Num(60), Num(100)},
   fuelCost : {Base.fuelCost},
   omCost : {Base.omCost},
   loadHours : {Num(2000), 0},
   decommissioningCost : {Base.decommissioningCost},
   rabProportion : {Num(50), 0, Num(100)},
   inflationRate : {Num(2), 0}]

InputSpace ==
  {i \in InputGrid : Cardinality({f \in DOMAIN Base : i[f] # Base[f]}) <= SweepVars}

Toggles ==
  [rabEnabled : BOOLEAN, decliningWacc : BOOLEAN, turnkey : BOOLEAN, twoLives : BOOLEAN,
   valuationPoint : {"soc"}]

\* The calls made on the engine: the construction phase on its own, as the
\* acceptance tests call it, and the orchestrator, as the hook calls it.
Calls ==
  [fn : {"buildConstructionPhase"}, inflationMode : {"lump_sum", "dynamic"},
   idcMode : {"afudc_whole_wacc", "debt_only"}, rabFrac : {0, Scale \div 2, Scale}]
  \cup [fn : {"calculateLcoe"}, step : 1..3, adv : Toggles]

VARIABLES inputs, call, out
vars == <<inputs, call, out>>

Init ==
  /\ inputs \in InputSpace
  /\ call \in Calls
  /\ out = << >>

BuildConstructionPhase ==
  /\ call.fn = "buildConstructionPhase"
  /\ out = << >>
  /\ out' = <<buildConstructionPhase(inputs, call.inflationMode, call.idcMode, call.rabFrac)>>
  /\ UNCHANGED <<inputs, call>>

CalculateLcoe ==
  /\ call.fn = "calculateLcoe"
  /\ out = << >>
  /\ out' = <<calculateLcoe(inputs, call.step, call.adv, << >>)>>
  /\ UNCHANGED <<inputs, call>>

Next == BuildConstructionPhase \/ CalculateLcoe

Spec == Init /\ [][Next]_vars

(***************************************************************************)
(* Properties                                                              *)
(***************************************************************************)
Built == call.fn = "buildConstructionPhase" /\ out # << >>
Calculated == call.fn = "calculateLcoe" /\ out # << >>

\* approxEq of the acceptance tests: |a - b| < tol * max(1, |a|, |b|).
approxEq(a, b, tol) == Abs(a - b) < Mul(tol, Max(Scale, Max(Abs(a), Abs(b))))

\* The tolerances the tests and the specification use: 1e-6 and 1e-4.
Tol6 == Scale \div 10^6
Tol4 == Scale \div 10^4

TcOf(i) == Max(0, Round(i.constructionTime))
TLOf(i) == Max(0, Round(i.usefulLife))

\* Some construction period's interest is non-zero.
InterestAccrues(i, inflationMode, idcMode, rabFrac) ==
  LET ipy == accrual(i, inflationMode, idcMode, rabFrac).idc.interestPerYear
  IN \E t \in 1..Len(ipy) : ipy[t] # 0

BucketSum(r) == r.occLcoe + r.financingLcoe + r.fuelLcoe + r.omLcoe + r.decommissioningLcoe

\* C1: in every step and toggle combination (single life, dual life, turnkey,
\* degenerate all-zero result) totalLcoe is the sum of the five primary buckets
\* occ + financing + fuel + om + decommissioning, to the 1e-6 relative tolerance
\* at which the quotients are compared; the memo line surchargedIdcLcoe is not
\* one of the addends.
C1_BucketsSumToTotal ==
  Calculated => approxEq(out[1].totalLcoe, BucketSum(out[1]), Tol6)

C1_Witness ==
  /\ Calculated
  /\ call.step = 3 /\ call.adv.rabEnabled /\ ~call.adv.turnkey
  /\ out[1].surchargedIdcLcoe > 0
  /\ out[1].totalLcoe > 0

\* pvOccSOC compounded over the whole construction time at the blended WACC.
WaccCompoundedOcc(i, c) ==
  Mul(c.pvOccSOC, PowInt(Scale + calcNominalWacc(i).waccNomBlend, TcOf(i)))

\* C2 as claimed: for Tc > 0 and WACC > 0, fvEconomicCOD is strictly below
\* pvOccSOC x (1+WACC)^Tc.
C2_FvBelowCompoundedOcc ==
  (Built /\ TcOf(inputs) > 0 /\ calcNominalWacc(inputs).waccNomBlend > 0)
    => out[1].fvEconomicCOD < WaccCompoundedOcc(inputs, out[1])

\* C2 amended: for Tc > 0 and WACC > 0, fvEconomicCOD equals
\* pvOccSOC x (1+WACC)^Tc up to rounding (relative 1e-4): both are the same
\* draws moved to COD at the same rate, so neither is strictly the smaller.
C2_FvEqualsCompoundedOcc ==
  (Built /\ TcOf(inputs) > 0 /\ calcNominalWacc(inputs).waccNomBlend > 0)
    => approxEq(out[1].fvEconomicCOD, WaccCompoundedOcc(inputs, out[1]), Tol4)

C2_Witness ==
  /\ Built
  /\ TcOf(inputs) >= 2
  /\ calcNominalWacc(inputs).waccNomBlend > 0
  /\ out[1].fvEconomicCOD > out[1].pvOccSOC

\* C3: for Tc > 0 and blended nominal WACC > 0, in both inflation modes, both
\* accrual bases and for every rabFraction, fvEconomicCOD > pvCapexSOC.
C3_FvExceedsPvCapex ==
  (Built /\ TcOf(inputs) > 0 /\ calcNominalWacc(inputs).waccNomBlend > 0)
    => out[1].fvEconomicCOD > out[1].pvCapexSOC

C3_Witness ==
  /\ Built
  /\ TcOf(inputs) > 0
  /\ call.inflationMode = "lump_sum" /\ call.idcMode = "afudc_whole_wacc" /\ call.rabFrac = 0
  /\ out[1].pvFinancingSOC > 0
  /\ out[1].fvEconomicCOD > out[1].pvCapexSOC

\* C4 as claimed: whenever some period's interest is non-zero, occRatioCOD
\* lies strictly between 0 and 1.
C4_RatioInsideUnitInterval ==
  (Built /\ InterestAccrues(inputs, call.inflationMode, call.idcMode, call.rabFrac))
    => (0 < out[1].occRatioCOD /\ out[1].occRatioCOD < Scale)

\* The rate at which the book value of the draws grows to COD: inflation in
\* dynamic mode, none in lump-sum mode.
BookRate(i, inflationMode) ==
  IF inflationMode = "lump_sum" THEN 0 ELSE DivLit(i.inflationRate, 100)

\* C4 amended: whenever some period's interest is non-zero and the blended
\* nominal WACC exceeds the rate the book value grows at (inflation; zero in
\* lump-sum mode), occRatioCOD lies strictly between 0 and 1.
C4_RatioInsideWhenWaccAboveBookRate ==
  (/\ Built
   /\ InterestAccrues(inputs, call.inflationMode, call.idcMode, call.rabFrac)
   /\ calcNominalWacc(inputs).waccNomBlend > BookRate(inputs, call.inflationMode))
    => (0 < out[1].occRatioCOD /\ out[1].occRatioCOD < Scale)

C4_Witness ==
  /\ Built
  /\ call.inflationMode = "dynamic" /\ call.idcMode = "debt_only"
  /\ InterestAccrues(inputs, call.inflationMode, call.idcMode, call.rabFrac)
  /\ calcNominalWacc(inputs).waccNomBlend > BookRate(inputs, call.inflationMode)
  /\ 0 < out[1].occRatioCOD /\ out[1].occRatioCOD < Scale

\* C5 as claimed: rabFraction = 1 gives pvFinancingSOC = 0 with
\* pvSurchargedIdcSOC > 0 and fvSurchargedCOD > 0; rabFraction = 0 gives
\* pvSurchargedIdcSOC = 0 and fvSurchargedCOD = 0.
C5_RabExtremes ==
  /\ (Built /\ call.rabFrac = Scale)
       => (/\ out[1].pvFinancingSOC = 0
           /\ out[1].pvSurchargedIdcSOC > 0
           /\ out[1].fvSurchargedCOD > 0)
  /\ (Built /\ call.rabFrac = 0)
       => (out[1].pvSurchargedIdcSOC = 0 /\ out[1].fvSurchargedCOD = 0)

\* C5 amended: rabFraction = 1 gives pvFinancingSOC = 0, and
\* pvSurchargedIdcSOC > 0 and fvSurchargedCOD > 0 provided some period's
\* interest is non-zero (none is when Tc = 0, or on the debt-only basis with
\* zero gearing or a zero nominal cost of debt); rabFraction = 0 gives
\* pvSurchargedIdcSOC = 0 and fvSurchargedCOD = 0.
C5_RabExtremesWhenInterestAccrues ==
  /\ (Built /\ call.rabFrac = Scale)
       => (/\ out[1].pvFinancingSOC = 0
           /\ InterestAccrues(inputs, call.inflationMode, call.idcMode, call.rabFrac)
                => (out[1].pvSurchargedIdcSOC > 0 /\ out[1].fvSurchargedCOD > 0))
  /\ (Built /\ call.rabFrac = 0)
       => (out[1].pvSurchargedIdcSOC = 0 /\ out[1].fvSurchargedCOD = 0)

C5_Witness ==
  /\ Built
  /\ call.rabFrac = Scale
  /\ InterestAccrues(inputs, call.inflationMode, call.idcMode, call.rabFrac)
  /\ out[1].pvFinancingSOC = 0
  /\ out[1].pvSurchargedIdcSOC > 0

\* The cached artifact the sensitivity sweep hands to calculateLcoe: a
\* construction result together with a discount factor sequence.
withDf(c, df) ==
  [pvOccSOC |-> c.pvOccSOC, pvFinancingSOC |-> c.pvFinancingSOC, pvCapexSOC |-> c.pvCapexSOC,
   fvEconomicCOD |-> c.fvEconomicCOD, occRatioCOD |-> c.occRatioCOD,
   pvSurchargedIdcSOC |-> c.pvSurchargedIdcSOC, fvSurchargedCOD |-> c.fvSurchargedCOD,
   df |-> df]

\* The discount factor sequence calculateLcoe builds for (i, step, adv).
dfOf(i, step, adv) ==
  buildDfArray(DivLit(i.costOfEquity, 100), calcNominalWacc(i).costOfDebtNom, clampGearing(i),
               DivLit(i.inflationRate, 100), TLOf(i), methodology(step, adv).declining, TcOf(i))

\* The construction result calculateLcoe builds for (i, step, adv).
constrOf(i, step, adv) ==
  buildConstructionPhase(i, methodology(step, adv).inflationMode,
                         methodology(step, adv).idcMode, methodology(step, adv).rabFrac)

\* The result is not the all-zero one of the loadHours / usefulLife guard.
NonDegenerate(i) == annualMwhOf(i) > 0 /\ TLOf(i) > 0

\* Step 3 on the owner's (non-turnkey) path with RAB enabled.
OwnerWithRab == Calculated /\ call.step = 3 /\ call.adv.rabEnabled /\ ~call.adv.turnkey

\* The same call with the RAB toggle off.
WithoutRab == calculateLcoe(inputs, call.step, [call.adv EXCEPT !.rabEnabled = FALSE], << >>)

RabLowersCost ==
  /\ out[1].financingLcoe < WithoutRab.financingLcoe
  /\ out[1].totalLcoe < WithoutRab.totalLcoe
  /\ out[1].surchargedIdcLcoe > 0

\* C6 as claimed: in step 3, non-turnkey, whenever debt-financed interest
\* accrues during construction, rabEnabled = true gives strictly lower
\* financingLcoe and totalLcoe than rabEnabled = false, and a strictly
\* positive surchargedIdcLcoe.
C6_RabStrictlyLowers ==
  (OwnerWithRab /\ InterestAccrues(inputs, "dynamic", "debt_only", 0)) => RabLowersCost

\* C6 amended: the same, for inputs whose result is not the all-zero one
\* (loadHours > 0 and usefulLife >= 1).
C6_RabStrictlyLowersWhenNonDegenerate ==
  (OwnerWithRab /\ InterestAccrues(inputs, "dynamic", "debt_only", 0) /\ NonDegenerate(inputs))
    => RabLowersCost

C6_Witness ==
  /\ OwnerWithRab
  /\ InterestAccrues(inputs, "dynamic", "debt_only", 0)
  /\ NonDegenerate(inputs)
  /\ out[1].financingLcoe = 0
  /\ WithoutRab.financingLcoe > 0
  /\ out[1].surchargedIdcLcoe > 0

\* C7: with RAB enabled the owner's LCOE accounts for the post-COD repayment of
\* the liability fvSurchargedCOD: the owner's totalLcoe is higher than the one
\* the same call returns when that liability is zero.
C7_OwnerRepaysSurcharge ==
  (OwnerWithRab /\ NonDegenerate(inputs)
     /\ constrOf(inputs, call.step, call.adv).fvSurchargedCOD > 0)
    => out[1].totalLcoe >
         calculateLcoe(inputs, call.step, call.adv,
                       <<withDf([constrOf(inputs, call.step, call.adv)
                                   EXCEPT !.fvSurchargedCOD = 0],
                                dfOf(inputs, call.step, call.adv))>>).totalLcoe

\* The share of the interest passed to ratepayers that rabProportion names.
rabShare(i) == DivLit(Min(Max(i.rabProportion, 0), Num(100)), 100)

\* C8: with RAB enabled (step 3) calculateLcoe surcharges rabProportion percent
\* of each period's interest and capitalizes the rest: its result is the one
\* obtained from the construction phase built with rabFraction = rabProportion/100.
C8_RabFractionIsRabProportion ==
  (Calculated /\ call.step = 3 /\ call.adv.rabEnabled)
    => out[1] = calculateLcoe(inputs, call.step, call.adv,
                              <<withDf(buildConstructionPhase(inputs, "dynamic", "debt_only",
                                                              rabShare(inputs)),
                                       dfOf(inputs, call.step, call.adv))>>)

\* Step 3 on the turnkey path, with a result that carries a sale price.
TurnkeySold == Calculated /\ call.step = 3 /\ call.adv.turnkey /\ NonDegenerate(inputs)

\* The developer's RAB-netted recovery target at COD.
netTarget(i, step, adv) ==
  Max(0, constrOf(i, step, adv).fvEconomicCOD - constrOf(i, step, adv).fvSurchargedCOD)

\* The number of instalments the sale price is paid in.
tranchesOf(i) == Min(MaxTranches, TLOf(i))

\* Value at COD of the instalments (developerSalePrice split evenly over
\* them) at the constant blended nominal WACC with mid-year timing
\* (1+WACC)^-(t-0.5), t = 1 .. number of instalments.
pvAtConstantWacc(i, developerSalePrice) ==
  SumTo([t \in 1..tranchesOf(i) |->
           Mul(DivLit(developerSalePrice, tranchesOf(i)),
               Div(Scale, PowHalf(Scale + calcNominalWacc(i).waccNomBlend, t - 1)))],
        tranchesOf(i))

\* C9 as claimed: for every input with usefulLife >= 1 and every decline
\* setting, the instalments valued at the constant blended WACC, mid-year,
\* equal the net recovery target within 1e-4.
C9_NpvIdentityEveryLife ==
  TurnkeySold
    => approxEq(pvAtConstantWacc(inputs, out[1].developerSalePrice),
                netTarget(inputs, call.step, call.adv), Tol4)

\* The years of the instalments are discounted at the undiminished blended
\* WACC: decline off, no tranche to decline over (floor(TL/3) = 0), or a first
\* tranche floor(TL/3) of at least three years.
FlatOverTranches(i, adv) ==
  ~adv.decliningWacc \/ TLOf(i) \div 3 = 0 \/ TLOf(i) \div 3 >= MaxTranches

\* C9 amended: the identity holds for usefulLife >= 1 when the buyer's
\* discount factors of the instalment years are the constant-WACC ones:
\* decline off, or usefulLife < 3, or usefulLife >= 9.
C9_NpvIdentityWhenFlat ==
  (TurnkeySold /\ FlatOverTranches(inputs, call.adv))
    => approxEq(pvAtConstantWacc(inputs, out[1].developerSalePrice),
                netTarget(inputs, call.step, call.adv), Tol4)

C9_Witness ==
  /\ TurnkeySold
  /\ call.adv.decliningWacc /\ call.adv.rabEnabled
  /\ TLOf(inputs) \div 3 >= MaxTranches
  /\ constrOf(inputs, call.step, call.adv).fvSurchargedCOD > 0
  /\ out[1].developerSalePrice > 0
  /\ approxEq(pvAtConstantWacc(inputs, out[1].developerSalePrice),
              netTarget(inputs, call.step, call.adv), Tol4)

\* The buyer's discount factors (construction offset 0).
buyerDfOf(i, adv) ==
  buildDfArray(DivLit(i.costOfEquity, 100), calcNominalWacc(i).costOfDebtNom, clampGearing(i),
               DivLit(i.inflationRate, 100), TLOf(i), methodology(3, adv).declining, 0)

\* developerSalePrice is n instalments, each solving
\* instalment x (sum of the first n buyer factors present) = net target.
PaidInTranches(n) ==
  /\ out[1].developerSalePrice % n = 0
  /\ approxEq(Mul(out[1].developerSalePrice \div n,
                  SumTo(buyerDfOf(inputs, call.adv), Min(n, TLOf(inputs)))),
              netTarget(inputs, call.step, call.adv), Tol4)

\* C10 as claimed: exactly 3 equal instalments, the instalment solving
\* instalment x (sum of the first 3 buyer factors) = net target, and
\* developerSalePrice = 3 x instalment, for every useful life with a non-zero
\* result.
C10_ThreeInstalments == TurnkeySold => PaidInTranches(MaxTranches)

\* C10 amended: the number of instalments is min(3, usefulLife); the
\* instalment solves instalment x (sum of that many buyer factors) = net
\* target, and developerSalePrice = min(3, usefulLife) x instalment.
C10_InstalmentsCappedByLife == TurnkeySold => PaidInTranches(tranchesOf(inputs))

C10_Witness ==
  /\ TurnkeySold
  /\ TLOf(inputs) = 2
  /\ out[1].developerSalePrice > 0
  /\ PaidInTranches(2)

\* The result of the same call when the caller hands in the construction
\* result c (with the discount factors calculateLcoe would build itself).
WithConstruction(c) ==
  calculateLcoe(inputs, call.step, call.adv, <<withDf(c, dfOf(inputs, call.step, call.adv))>>)

\* The construction result c with surcharges worth its whole economic value
\* at COD and x more.
OverSurcharged(c, x) == [c EXCEPT !.fvSurchargedCOD = c.fvEconomicCOD + x]

NothingLeftToRecover(r) ==
  /\ r.developerSalePrice = 0
  /\ r.occLcoe = 0
  /\ r.financingLcoe = 0
  /\ r.fuelLcoe = out[1].fuelLcoe
  /\ r.omLcoe = out[1].omLcoe
  /\ r.decommissioningLcoe = out[1].decommissioningLcoe

\* C11: in turnkey mode developerSalePrice is never negative, and when the
\* surcharges collected are at least fvEconomicCOD the sale price, occLcoe and
\* financingLcoe are 0 while the fuel, O&M and decommissioning buckets are
\* those of the call without such surcharges.
C11_NetRecoveryFloored ==
  TurnkeySold
    => /\ out[1].developerSalePrice >= 0
       /\ \A c \in {constrOf(inputs, call.step, call.adv)} :
            \A r \in {WithConstruction(OverSurcharged(c, x)) : x \in {0, Num(1)}} :
              NothingLeftToRecover(r)

C11_Witness ==
  /\ TurnkeySold
  /\ call.adv.rabEnabled
  /\ out[1].developerSalePrice > 0
  /\ out[1].fuelLcoe > 0
  /\ \E r \in {WithConstruction(OverSurcharged(constrOf(inputs, call.step, call.adv), Num(1)))} :
       r.developerSalePrice = 0 /\ r.totalLcoe > 0

\* Step 3 on the turnkey path with RAB enabled.
TurnkeyWithRab == TurnkeySold /\ call.adv.rabEnabled

\* Against the same call with RAB off (r), the OCC bucket is unchanged and the
\* financing bucket alone carries the difference of the totals.
OnlyFinancingAbsorbs(r) ==
  /\ approxEq(out[1].occLcoe, r.occLcoe, Tol4)
  /\ out[1].fuelLcoe = r.fuelLcoe
  /\ out[1].omLcoe = r.omLcoe
  /\ out[1].decommissioningLcoe = r.decommissioningLcoe
  /\ approxEq(r.totalLcoe - out[1].totalLcoe, r.financingLcoe - out[1].financingLcoe, Tol4)

\* C12 as claimed: in turnkey mode occLcoe with rabEnabled = true equals
\* occLcoe with rabEnabled = false for identical inputs, and only
\* financingLcoe absorbs the RAB netting.
C12_OccRabInvariant ==
  TurnkeyWithRab => \A r \in {WithoutRab} : OnlyFinancingAbsorbs(r)

\* The same call with the declining-rate toggle flipped.
DeclineFlipped == [call.adv EXCEPT !.decliningWacc = ~@]

\* A useful life whose tranche length floor(TL/3) is 0, with cash flows to
\* discount.
ShortLife == Calculated /\ TLOf(inputs) < 3

\* C13: for usefulLife < 3 the declining-rate flag is ignored: buildDfArray
\* returns the same sequence with declining true as with declining false (at
\* the construction offset and at the buyer's offset 0), and calculateLcoe
\* returns the same result with the toggle on as with it off, on the core and
\* on the turnkey path.
C13_DeclineIgnoredForShortLife ==
  ShortLife
    => /\ out[1] = calculateLcoe(inputs, call.step, DeclineFlipped, << >>)
       /\ dfOf(inputs, 3, call.adv) = dfOf(inputs, 3, DeclineFlipped)
       /\ buyerDfOf(inputs, call.adv) = buyerDfOf(inputs, DeclineFlipped)

C13_Witness ==
  /\ ShortLife /\ call.step = 3 /\ call.adv.decliningWacc /\ call.adv.turnkey
  /\ TLOf(inputs) = 2 /\ out[1].totalLcoe > 0
  /\ Len(buyerDfOf(inputs, call.adv)) = 2

\* The same call with construction one year shorter.
OneYearShorter ==
  calculateLcoe([inputs EXCEPT !.constructionTime = @ - Num(1)], call.step, call.adv, << >>)

LongerBuild == Calculated /\ TcOf(inputs) >= 1

\* C14 as claimed: with all other inputs fixed, fuelLcoe and omLcoe strictly
\* increase with every year added to constructionTime from 0.
C14_OpexRisesWithConstructionTime ==
  LongerBuild
    => \A r \in {OneYearShorter} : out[1].fuelLcoe > r.fuelLcoe /\ out[1].omLcoe > r.omLcoe

\* C14: fuelLcoe and omLcoe strictly increase with every year added to
\* constructionTime from 0 when inflation is positive and the result is not the
\* all-zero one (loadHours > 0, useful life > 0), each year multiplying them by
\* 1 + inflation; at zero inflation, or in the all-zero result, they do not
\* change with constructionTime.
C14_OpexRisesWithConstructionTimeUnderInflation ==
  LongerBuild
    => \A r \in {OneYearShorter} :
         IF NonDegenerate(inputs) /\ inputs.inflationRate > 0
         THEN /\ out[1].fuelLcoe > r.fuelLcoe /\ out[1].omLcoe > r.omLcoe
              /\ approxEq(out[1].fuelLcoe,
                          Mul(r.fuelLcoe, Scale + DivLit(inputs.inflationRate, 100)), Tol4)
              /\ approxEq(out[1].omLcoe,
                          Mul(r.omLcoe, Scale + DivLit(inputs.inflationRate, 100)), Tol4)
         ELSE out[1].fuelLcoe = r.fuelLcoe /\ out[1].omLcoe = r.omLcoe

C14_Witness ==
  /\ LongerBuild /\ TcOf(inputs) = MaxTc /\ NonDegenerate(inputs) /\ inputs.inflationRate > 0
  /\ call.step = 3 /\ call.adv.turnkey
  /\ out[1].fuelLcoe > OneYearShorter.fuelLcoe /\ OneYearShorter.fuelLcoe > 0

\* PV of the energy of operational years lo .. hi-1 (0-based) under the
\* discount factors of the call.
pvEnergyOf(i, step, adv, lo, hi) ==
  opexLoop(annualMwhOf(i), 0, 0, 0, DivLit(i.inflationRate, 100), TcOf(i),
           dfOf(i, step, adv), lo, hi, noPv).pvEnergy

\* The first half of a dual life has ceil(TL / 2) years.
firstHalfYears(i) == (TLOf(i) + 1) \div 2

DualLife ==
  Calculated /\ call.step = 3 /\ call.adv.twoLives /\ ~call.adv.turnkey /\ NonDegenerate(inputs)

PvWeighted(r, pvE1, pvE2) ==
  /\ pvE1 + pvE2 > 0
  /\ approxEq(r.totalLcoe,
              Div(Mul(pvE1, r.halfLcoe1) + Mul(pvE2, r.halfLcoe2), pvE1 + pvE2), Tol4)
  /\ ~approxEq(r.totalLcoe, DivLit(r.halfLcoe1 + r.halfLcoe2, 2), Tol4)

AllOff ==
  [rabEnabled |-> FALSE, decliningWacc |-> FALSE, turnkey |-> FALSE, twoLives |-> FALSE,
   valuationPoint |-> "soc"]

\* The methodology parameters the three steps stand for.
StepParameters(step, adv) ==
  IF step = 1
  THEN [inflationMode |-> "lump_sum", idcMode |-> "afudc_whole_wacc", rabFrac |-> 0,
        declining |-> FALSE, twoLives |-> FALSE, turnkey |-> FALSE]
  ELSE IF step = 2
  THEN [inflationMode |-> "dynamic", idcMode |-> "debt_only", rabFrac |-> 0,
        declining |-> FALSE, twoLives |-> FALSE, turnkey |-> FALSE]
  ELSE [inflationMode |-> "dynamic", idcMode |-> "debt_only",
        rabFrac |-> IF adv.rabEnabled THEN Scale ELSE 0,
        declining |-> adv.decliningWacc, twoLives |-> adv.twoLives, turnkey |-> adv.turnkey]

\* C16: step 1 is lump-sum inflation, whole-capital IDC, no RAB, decline,
\* dual life or turnkey; step 2 is dynamic inflation, debt-only IDC, every
\* advanced variant off; step 3 is dynamic, debt-only, each of RAB, decline,
\* dual life and turnkey on exactly when its toggle is on.  So in steps 1 and 2
\* the result of every toggle combination is that of all toggles off, and
\* step 3 with all toggles off gives the result of step 2.
C16_StepsSelectMethodology ==
  Calculated
    => /\ methodology(call.step, call.adv) = StepParameters(call.step, call.adv)
       /\ call.step \in {1, 2} => out[1] = calculateLcoe(inputs, call.step, AllOff, << >>)
       /\ (call.step = 3 /\ call.adv = AllOff) => out[1] = calculateLcoe(inputs, 2, AllOff, << >>)

C16_Witness ==
  /\ Calculated /\ call.step = 2 /\ out[1].totalLcoe > 0
  /\ call.adv.rabEnabled /\ call.adv.decliningWacc /\ call.adv.twoLives /\ call.adv.turnkey
  /\ out[1] = calculateLcoe(inputs, 2, AllOff, << >>)
  /\ out[1] # calculateLcoe(inputs, 3, call.adv, << >>)

\* The same call with the valuation-point toggle set to COD.
AtCod == [call.adv EXCEPT !.valuationPoint = "cod"]

\* A construction result handed to calculateLcoe with discount factors df.
Precomputed(c, df) == <<withDf(c, df)>>

\* The sale of construction result c is priced on the buyer's factors, built
\* with offset 0: instalment x (sum of the buyer's first factors) = net target.
PricedOnBuyerFactors(c) ==
  approxEq(Mul(DivLit(out[1].developerSalePrice, tranchesOf(inputs)),
               SumTo(buyerDfOf(inputs, call.adv), tranchesOf(inputs))),
           netRecovery(c.fvEconomicCOD, c.fvSurchargedCOD), Tol4)

OPEX_ONLY_VARS == {"fuelCost", "omCost", "loadHours", "decommissioningCost"}

\* Inputs the sweep may have cached its construction result from: they differ
\* from i in operational-only fields alone.
CachedFrom(i) ==
  {[i EXCEPT !.fuelCost = Num(7), !.omCost = Num(3), !.loadHours = Num(1000),
             !.decommissioningCost = Num(300)],
   [i EXCEPT !.loadHours = 0, !.decommissioningCost = 0]}

\* C18: the construction result and the discount factor sequence are the
\* same for inputs that differ only in fuelCost, omCost, loadHours and
\* decommissioningCost, so calculateLcoe given the construction result and
\* factors precomputed from such inputs returns what it returns without them,
\* in every step and toggle combination.
C18_MemoizationSound ==
  \A b \in CachedFrom(inputs) :
    /\ \A f \in DOMAIN inputs : b[f] # inputs[f] => f \in OPEX_ONLY_VARS
    /\ Built => out[1] = buildConstructionPhase(b, call.inflationMode, call.idcMode,
                                                call.rabFrac)
    /\ Calculated
         => \A df \in {dfOf(b, call.step, call.adv)} :
              /\ df = dfOf(inputs, call.step, call.adv)
              /\ out[1] = calculateLcoe(inputs, call.step, call.adv,
                                        Precomputed(constrOf(b, call.step, call.adv), df))

C18_Witness ==
  /\ Calculated /\ call.step = 3 /\ call.adv.rabEnabled /\ out[1].totalLcoe > 0
  /\ TcOf(inputs) > 0
  /\ \E b \in CachedFrom(inputs) :
       /\ b.fuelCost # inputs.fuelCost /\ b.decommissioningCost # inputs.decommissioningCost
       /\ out[1] = calculateLcoe(inputs, call.step, call.adv,
                                 Precomputed(constrOf(b, call.step, call.adv),
                                             dfOf(b, call.step, call.adv)))
       /\ out[1] # calculateLcoe(b, call.step, call.adv, << >>)

AllZero(r) ==
  /\ r.totalLcoe = 0 /\ r.occLcoe = 0 /\ r.financingLcoe = 0 /\ r.fuelLcoe = 0
  /\ r.omLcoe = 0 /\ r.decommissioningLcoe = 0 /\ r.surchargedIdcLcoe = 0

\* The inputs with no energy or no life: loadHours zero or negative, useful
\* life negative or rounding to zero.
WithoutEnergyOrLife(i) ==
  {[i EXCEPT !.loadHours = 0], [i EXCEPT !.loadHours = -Num(1)],
   [i EXCEPT !.usefulLife = 0], [i EXCEPT !.usefulLife = Scale \div 4],
   [i EXCEPT !.usefulLife = -Num(2)]}

\* C19: whenever loadHours <= 0 or the rounded useful life is <= 0,
\* calculateLcoe returns a result whose totalLcoe, five primary buckets and
\* surchargedIdcLcoe are all exactly 0, in every step and toggle combination
\* (dual life and turnkey included), and it returns one for each such input.
C19_NoEnergyOrLifeGivesAllZero ==
  Calculated
    => /\ (inputs.loadHours <= 0 \/ Round(inputs.usefulLife) <= 0) => AllZero(out[1])
       /\ \A i \in WithoutEnergyOrLife(inputs) :
            AllZero(calculateLcoe(i, call.step, call.adv, << >>))

C19_Witness ==
  /\ Calculated /\ call.step = 3 /\ call.adv.turnkey /\ call.adv.rabEnabled
  /\ inputs.loadHours <= 0 /\ TLOf(inputs) = MaxTL /\ TcOf(inputs) > 0
  /\ AllZero(out[1])

IsIdentity(r, overnightCost) ==
  /\ r.pvOccSOC = overnightCost /\ r.pvCapexSOC = overnightCost
  /\ r.fvEconomicCOD = overnightCost
  /\ r.pvFinancingSOC = 0 /\ r.pvSurchargedIdcSOC = 0 /\ r.fvSurchargedCOD = 0
  /\ r.occRatioCOD = Scale

\* Construction times that are zero after Math.max(0, Math.round(.)): zero,
\* a fraction rounding down to zero, and negative values.
NoConstructionTime == {0, Scale \div 4, (Scale \div 2) - 1, -(Scale \div 2), -Num(2)}

\* C20: when construction time is zero, or rounds or clamps to zero,
\* buildConstructionPhase returns the identity result for every inflation
\* mode, IDC basis and rabFraction: pvOccSOC = pvCapexSOC = fvEconomicCOD =
\* overnightCost, pvFinancingSOC = pvSurchargedIdcSOC = fvSurchargedCOD = 0,
\* occRatioCOD = 1.
C20_ZeroConstructionTimeIsIdentity ==
  Built
    => /\ TcOf(inputs) = 0 => IsIdentity(out[1], inputs.overnightCost)
       /\ \A ct \in NoConstructionTime :
            IsIdentity(buildConstructionPhase([inputs EXCEPT !.constructionTime = ct],
                                              call.inflationMode, call.idcMode, call.rabFrac),
                       inputs.overnightCost)

C20_Witness ==
  /\ Built /\ TcOf(inputs) = 0 /\ call.rabFrac = Scale /\ call.inflationMode = "lump_sum"
  /\ call.idcMode = "afudc_whole_wacc" /\ inputs.inflationRate > 0
  /\ IsIdentity(out[1], inputs.overnightCost) /\ inputs.overnightCost > 0

\* Out-of-range values with the bound nearest to each: gearing in percent,
\* RAB fraction as a share.
GearingBeyond == {<<-Num(10), 0>>, <<Num(150), Num(100)>>}
RabFractionBeyond == {<<-(Scale \div 2), 0>>, <<(3 * Scale) \div 2, Scale>>}

WithGearing(i, g) == [i EXCEPT !.targetGearing = g]

\* targetGearing beyond [0, 100] gives what the nearest bound gives.
GearingClamped ==
  \A g \in GearingBeyond :
    /\ calcNominalWacc(WithGearing(inputs, g[1])) = calcNominalWacc(WithGearing(inputs, g[2]))
    /\ Built => buildConstructionPhase(WithGearing(inputs, g[1]), call.inflationMode,
                                       call.idcMode, call.rabFrac)
                  = buildConstructionPhase(WithGearing(inputs, g[2]), call.inflationMode,
                                           call.idcMode, call.rabFrac)
    /\ Calculated => calculateLcoe(WithGearing(inputs, g[1]), call.step, call.adv, << >>)
                       = calculateLcoe(WithGearing(inputs, g[2]), call.step, call.adv, << >>)

\* A rabFraction beyond [0, 1] gives what the nearest bound gives.
RabFractionClamped ==
  Built
    => \A f \in RabFractionBeyond :
         buildConstructionPhase(inputs, call.inflationMode, call.idcMode, f[1])
           = buildConstructionPhase(inputs, call.inflationMode, call.idcMode, f[2])

\* C21 as claimed: out-of-range gearing and RAB fraction are clamped, not
\* rejected: targetGearing outside [0, 100] % behaves like the nearest bound in
\* calcNominalWacc, buildConstructionPhase and calculateLcoe, and a
\* rabFraction outside [0, 1] passed to buildConstructionPhase behaves like
\* the nearest bound (0 or 1).
C21_OutOfRangeClamped == GearingClamped /\ RabFractionClamped

\* w_k: the blended nominal rate of operational year k (1-based) of the call.
opRate(i, declining, k) ==
  getOpW(DivLit(i.costOfEquity, 100), calcNominalWacc(i).costOfDebtNom, clampGearing(i),
         DivLit(i.inflationRate, 100), TLOf(i), declining, k)

\* (1 + w_1) x ... x (1 + w_n).
RECURSIVE GrowthThrough(_, _, _)
GrowthThrough(i, declining, n) ==
  IF n <= 0 THEN Scale
  ELSE Mul(GrowthThrough(i, declining, n - 1), Scale + opRate(i, declining, n))

\* Factor k (1-based) of df is 1 / ((1+baseWACC)^offset x the growth through
\* the years before k x sqrt(1 + w_k)).
MidYearFactors(df, i, declining, offset) ==
  /\ Len(df) = TLOf(i)
  /\ \A k \in 1..Len(df) :
       approxEq(df[k],
                Div(Scale, Mul(Mul(PowInt(Scale + calcNominalWacc(i).waccNomBlend, offset),
                                   GrowthThrough(i, declining, k - 1)),
                               Sqrt(Scale + opRate(i, declining, k)))),
                Tol4)

\* Year 1 with offset 0 is discounted by (1+w)^0.5, not by (1+w)^1.5.
FirstYearHalfDiscounted(df, i, declining) ==
  Len(df) >= 1
    => /\ df[1] = Div(Scale, Sqrt(Scale + opRate(i, declining, 1)))
       /\ opRate(i, declining, 1) > 0
            => ~approxEq(df[1], Div(Scale, PowHalf(Scale + opRate(i, declining, 1), 1)), Tol4)

\* C22: buildDfArray takes each year's factor before advancing the cumulative
\* product: df[k] = 1 / ((1+baseWACC)^offset x prod_{j<k} (1+w_j) x sqrt(1+w_k)),
\* so that year 1 with offset 0 is discounted by (1+w)^0.5 and never by
\* (1+w)^1.5.
C22_FactorTakenBeforeAdvancing ==
  Calculated
    => /\ MidYearFactors(dfOf(inputs, call.step, call.adv), inputs,
                         methodology(call.step, call.adv).declining, TcOf(inputs))
       /\ \A df \in {buyerDfOf(inputs, call.adv)} :
            /\ MidYearFactors(df, inputs, methodology(3, call.adv).declining, 0)
            /\ FirstYearHalfDiscounted(df, inputs, methodology(3, call.adv).declining)

C22_Witness ==
  /\ Calculated /\ call.step = 3 /\ call.adv.decliningWacc
  /\ TLOf(inputs) = MaxTL /\ TcOf(inputs) = MaxTc
  /\ \E df \in {dfOf(inputs, call.step, call.adv)} :
       /\ Len(df) = MaxTL /\ df[1] > df[MaxTL] /\ df[MaxTL] > 0
       /\ df[1] < Div(Scale, PowInt(Scale + calcNominalWacc(inputs).waccNomBlend, MaxTc))

\* Tranche length and the tranche of operational year k (1-based).
trancheLength(i) == TLOf(i) \div 3
trancheOf(i, k) ==
  IF k <= trancheLength(i) THEN 1 ELSE IF k <= 2 * trancheLength(i) THEN 2 ELSE 3

\* Real cost of equity of a tranche: base, base x 2/3, base / 3.
trancheKeReal(i, n) ==
  IF n = 1 THEN DivLit(i.costOfEquity, 100)
  ELSE IF n = 2 THEN DivLit(DivLit(i.costOfEquity, 100) * 2, 3)
  ELSE DivLit(DivLit(i.costOfEquity, 100), 3)

\* Blend of the base nominal cost of debt with the Fisher-converted real cost
\* of equity keReal at the clamped gearing.
blendWith(i, keReal) ==
  Mul(clampGearing(i), calcNominalWacc(i).costOfDebtNom)
    + Mul(Scale - clampGearing(i),
          Mul(Scale + keReal, Scale + DivLit(i.inflationRate, 100)) - Scale)

DecliningLife == Calculated /\ call.step = 3 /\ call.adv.decliningWacc /\ TLOf(inputs) >= 3

\* C23: with decline enabled and TL >= 3, operational years 1..L are in
\* tranche 1 (base real cost of equity), L+1..2L in tranche 2 (base x 2/3) and
\* 2L+1..TL in tranche 3 (base / 3), L = floor(TL/3): tranches 1 and 2 have L
\* years each and the remainder falls in tranche 3.  The nominal cost of debt
\* and the rate compounding the construction offset stay at their base
\* values, so the factors of tranche 1 are those of the constant profile and
\* the later ones are larger whenever equity has weight.
C23_ThreeTranches ==
  DecliningLife
    => /\ \A k \in 1..TLOf(inputs) :
            opRate(inputs, TRUE, k) = blendWith(inputs, trancheKeReal(inputs, trancheOf(inputs, k)))
       /\ Cardinality({k \in 1..TLOf(inputs) : trancheOf(inputs, k) = 3})
            = trancheLength(inputs) + (TLOf(inputs) % 3)
       /\ blendWith(inputs, trancheKeReal(inputs, 1)) = calcNominalWacc(inputs).waccNomBlend
       /\ \A d \in {dfOf(inputs, 3, call.adv)} :
            \A f \in {dfOf(inputs, 2, call.adv)} :
              \A k \in 1..TLOf(inputs) :
                IF trancheOf(inputs, k) = 1 THEN d[k] = f[k]
                ELSE clampGearing(inputs) < Scale => d[k] > f[k]

C23_Witness ==
  /\ DecliningLife /\ TLOf(inputs) = 8 /\ clampGearing(inputs) < Scale /\ TcOf(inputs) > 0
  /\ trancheOf(inputs, 2) = 1 /\ trancheOf(inputs, 3) = 2 /\ trancheOf(inputs, 4) = 2
  /\ trancheOf(inputs, 5) = 3 /\ trancheOf(inputs, 8) = 3
  /\ opRate(inputs, TRUE, 2) > opRate(inputs, TRUE, 3)
  /\ opRate(inputs, TRUE, 4) > opRate(inputs, TRUE, 5)

\* The same call at zero inflation.
AtZeroInflation ==
  calculateLcoe([inputs EXCEPT !.inflationRate = 0], call.step, call.adv, << >>)

UnderInflation == Calculated /\ inputs.inflationRate > 0 /\ inputs.decommissioningCost > 0

\* C24 as claimed: with all other inputs fixed and decommissioningCost > 0,
\* decommissioningLcoe for zero inflation is strictly positive and strictly
\* lower than for positive inflation.
C24_DecomLowerAtZeroInflation ==
  UnderInflation
    => \A r \in {AtZeroInflation} :
         0 < r.decommissioningLcoe /\ r.decommissioningLcoe < out[1].decommissioningLcoe

\* C24: with all other inputs fixed, decommissioningCost > 0 and a result
\* that is not the all-zero one (loadHours > 0, useful life > 0),
\* decommissioningLcoe for zero inflation is strictly positive and strictly
\* lower than for positive inflation; in the all-zero result it is 0 at
\* either inflation.
C24_DecomLowerAtZeroInflationWhenNonDegenerate ==
  UnderInflation
    => \A r \in {AtZeroInflation} :
         IF NonDegenerate(inputs)
         THEN 0 < r.decommissioningLcoe /\ r.decommissioningLcoe < out[1].decommissioningLcoe
         ELSE r.decommissioningLcoe = 0 /\ out[1].decommissioningLcoe = 0

C24_Witness ==
  /\ UnderInflation /\ NonDegenerate(inputs) /\ call.step = 2 /\ TLOf(inputs) = MaxTL
  /\ TcOf(inputs) = MaxTc
  /\ 0 < AtZeroInflation.decommissioningLcoe
  /\ AtZeroInflation.decommissioningLcoe < out[1].decommissioningLcoe

\* The PV sums of operational years lo .. hi-1 (0-based) of the call.
pvSumsOf(i, step, adv, lo, hi) ==
  opexLoop(annualMwhOf(i), i.omCost, Mul(i.fuelCost, annualMwhOf(i)),
           annualDecomPayment(i.decommissioningCost, DivLit(i.inflationRate, 100),
                              TcOf(i), TLOf(i)),
           DivLit(i.inflationRate, 100), TcOf(i), dfOf(i, step, adv), lo, hi, noPv)

OwnerStep3 == Calculated /\ call.step = 3 /\ ~call.adv.turnkey

SameHeadline(a, b) ==
  /\ approxEq(a.totalLcoe, b.totalLcoe, Tol6) /\ approxEq(a.occLcoe, b.occLcoe, Tol6)
  /\ approxEq(a.financingLcoe, b.financingLcoe, Tol6)
  /\ approxEq(a.fuelLcoe, b.fuelLcoe, Tol6) /\ approxEq(a.omLcoe, b.omLcoe, Tol6)
  /\ approxEq(a.decommissioningLcoe, b.decommissioningLcoe, Tol6)
  /\ approxEq(a.surchargedIdcLcoe, b.surchargedIdcLcoe, Tol6)

HasHalves(r) == "halfLcoe1" \in DOMAIN r /\ "halfLcoe2" \in DOMAIN r
NoHalves(r) == "halfLcoe1" \notin DOMAIN r /\ "halfLcoe2" \notin DOMAIN r

\* The half figures of r are those of a split after ceil(TL / 2) years: the
\* first carries the capital cost c, the second its operating costs alone.
SplitAtCeil(r, c, h1, h2) ==
  /\ h1.pvEnergy > 0
  /\ r.halfLcoe1 = Div(c.pvOccSOC + c.pvFinancingSOC + h1.pvOm + h1.pvFuel + h1.pvDecom,
                       h1.pvEnergy)
  /\ r.halfLcoe2 = IF h2.pvEnergy > 0
                   THEN Div(h2.pvOm + h2.pvFuel + h2.pvDecom, h2.pvEnergy) ELSE 0
  /\ TLOf(inputs) = 1 => r.halfLcoe2 = 0

TurnkeyStep3 == Calculated /\ call.step = 3 /\ call.adv.turnkey

\* A cached factor sequence that is not the one of the inputs.
StaleDf(i) == [k \in 1..TLOf(i) |-> Scale]

\* C26: turnkey takes precedence over dual life and over the cached discount
\* factors: in step 3 with turnkey on the result is the same with twoLives on
\* and off and reports no halfLcoe1 / halfLcoe2, and a supplied precomputed df
\* is not used for discounting, the buyer's sequence being rebuilt from the
\* inputs.
C26_TurnkeyTakesPrecedence ==
  TurnkeyStep3
    => /\ out[1] = calculateLcoe(inputs, 3, [call.adv EXCEPT !.twoLives = ~@], << >>)
       /\ NoHalves(out[1])
       /\ \A c \in {constrOf(inputs, 3, call.adv)} :
            /\ out[1] = calculateLcoe(inputs, 3, call.adv, Precomputed(c, StaleDf(inputs)))
            /\ out[1] = calculateLcoe(inputs, 3, call.adv, Precomputed(c, << >>))

C26_Witness ==
  /\ TurnkeyStep3 /\ call.adv.twoLives /\ call.adv.decliningWacc /\ NonDegenerate(inputs)
  /\ TLOf(inputs) = MaxTL /\ TcOf(inputs) > 0
  /\ out[1].developerSalePrice > 0 /\ NoHalves(out[1])
  /\ out[1] # calculateLcoe(inputs, 3, [call.adv EXCEPT !.turnkey = FALSE], << >>)

\* The level decommissioning payment per MWh generated in a year.
decomPerMwh(i) ==
  Div(annualDecomPayment(i.decommissioningCost, DivLit(i.inflationRate, 100), TcOf(i), TLOf(i)),
      annualMwhOf(i))

\* The inputs with another cost of capital, gearing and overnight cost.
OtherCapital(i) ==
  [i EXCEPT !.costOfEquity = Num(5), !.costOfDebt = Num(7), !.targetGearing = Num(30),
            !.overnightCost = Num(50)]

\* C27: the flat decommissioning payment and the energy are discounted by the
\* same factors, so decommissioningLcoe = annualDecomPayment / (loadHours/1000)
\* whenever the result is not the all-zero one; decommissioningLcoe therefore
\* does not depend on costOfEquity, costOfDebt, targetGearing, the decline
\* flag, overnightCost, RAB or turnkey (equalities to rounding, 1e-4).
C27_DecomIsPaymentPerMwh ==
  (Calculated /\ NonDegenerate(inputs))
    => /\ approxEq(out[1].decommissioningLcoe, decomPerMwh(inputs), Tol4)
       /\ decomPerMwh(OtherCapital(inputs)) = decomPerMwh(inputs)
       /\ approxEq(calculateLcoe(OtherCapital(inputs), call.step,
                                 [call.adv EXCEPT !.decliningWacc = ~@, !.rabEnabled = ~@,
                                                  !.turnkey = ~@], << >>).decommissioningLcoe,
                   out[1].decommissioningLcoe, Tol4)

C27_Witness ==
  /\ Calculated /\ NonDegenerate(inputs) /\ call.step = 3 /\ call.adv.turnkey
  /\ call.adv.decliningWacc /\ call.adv.rabEnabled /\ inputs.inflationRate > 0
  /\ TLOf(inputs) = MaxTL /\ TcOf(inputs) > 0
  /\ out[1].decommissioningLcoe > 0
  /\ approxEq(out[1].decommissioningLcoe, decomPerMwh(inputs), Tol4)

\* The part of the draw of period t (1-based) on which interest accrues: the
\* whole draw, or its debt tranche.
financedDraw(i, idcMode, cNom, t) ==
  IF idcMode = "afudc_whole_wacc" THEN cNom[t] ELSE Mul(cNom[t], clampGearing(i))

accrualRate(i, idcMode) ==
  IF idcMode = "afudc_whole_wacc" THEN calcNominalWacc(i).waccNomBlend
  ELSE calcNominalWacc(i).costOfDebtNom

\* The balance (K or D) once the first n construction periods are processed.
balanceAfter(i, idcMode, rabFrac, cNom, n) ==
  idcLoop(cNom, n, idcMode, clampGearing(i), calcNominalWacc(i).waccNomBlend,
          calcNominalWacc(i).costOfDebtNom, rabFrac, 0, 0, <<0, 0, << >> >>, << >>).balance

RECURSIVE financedThrough(_, _, _, _)
financedThrough(i, idcMode, cNom, n) ==
  IF n <= 0 THEN 0
  ELSE financedThrough(i, idcMode, cNom, n - 1) + financedDraw(i, idcMode, cNom, n)

\* After each period the balance is the financed draws plus the capitalized
\* interest so far; each period's interest accrues on that balance plus half
\* the period's financed draw and splits into surcharged + capitalized.
AccrualInvariant(i, idcMode, rabFrac, ab) ==
  \A n \in 1..TcOf(i) :
    /\ balanceAfter(i, idcMode, rabFrac, ab.cNom, n)
         = financedThrough(i, idcMode, ab.cNom, n) + SumTo(ab.idc.capIdcPerYear, n)
    /\ ab.idc.interestPerYear[n]
         = Mul(financedThrough(i, idcMode, ab.cNom, n - 1) + SumTo(ab.idc.capIdcPerYear, n - 1)
                 + DivLit(financedDraw(i, idcMode, ab.cNom, n), 2),
               accrualRate(i, idcMode))
    /\ approxEq(surchargedPart(ab.idc.interestPerYear[n], rabFrac) + ab.idc.capIdcPerYear[n],
                ab.idc.interestPerYear[n], Tol4)
    /\ rabFrac = Scale => ab.idc.capIdcPerYear[n] = 0

Accrued == Built /\ TcOf(inputs) > 0

\* C28: the accrual loop keeps, after every construction period t, the
\* debt-only balance equal to the debt tranche of the draws 0..t plus the
\* capitalized interest 0..t (whole-capital: the draws plus the capitalized
\* interest); in every period surcharged + capitalized is that period's
\* interest, and surcharged interest never enters the balance on which later
\* interest accrues.
C28_AccrualLoopInvariant ==
  Accrued
    => AccrualInvariant(inputs, call.idcMode, call.rabFrac,
                        accrual(inputs, call.inflationMode, call.idcMode, call.rabFrac))

C28_Witness ==
  /\ Accrued /\ TcOf(inputs) = MaxTc /\ call.idcMode = "debt_only"
  /\ call.rabFrac = Scale \div 2 /\ out[1].pvSurchargedIdcSOC > 0 /\ out[1].pvFinancingSOC > 0
  /\ \E ab \in {accrual(inputs, call.inflationMode, call.idcMode, call.rabFrac)} :
       /\ ab.idc.capIdcPerYear[MaxTc] > 0
       /\ ab.idc.balance > financedThrough(inputs, call.idcMode, ab.cNom, MaxTc)

\* The accrual bases and RAB fractions a construction result is built for.
IdcModes == {"afudc_whole_wacc", "debt_only"}
RabFractions == {0, Scale \div 2, Scale}

SameDrawOutputs(a, b) ==
  /\ a.pvOccSOC = b.pvOccSOC /\ a.fvEconomicCOD = b.fvEconomicCOD
  /\ a.occRatioCOD = b.occRatioCOD

\* C29: the draw-based outputs of buildConstructionPhase (pvOccSOC,
\* fvEconomicCOD, occRatioCOD) are independent of rabFraction and of the IDC
\* accrual basis: for fixed inputs and inflation mode only pvFinancingSOC,
\* pvCapexSOC, pvSurchargedIdcSOC and fvSurchargedCOD can change with them,
\* pvCapexSOC remaining pvOccSOC + pvFinancingSOC.
C29_DrawOutputsIgnoreFinancing ==
  Built
    => \A m \in IdcModes : \A f \in RabFractions :
         \A r \in {buildConstructionPhase(inputs, call.inflationMode, m, f)} :
           /\ SameDrawOutputs(out[1], r)
           /\ r.pvCapexSOC = r.pvOccSOC + r.pvFinancingSOC

C29_Witness ==
  /\ Built /\ TcOf(inputs) = MaxTc /\ call.idcMode = "debt_only" /\ call.rabFrac = 0
  /\ out[1].pvFinancingSOC > 0
  /\ \E r \in {buildConstructionPhase(inputs, call.inflationMode, "afudc_whole_wacc", Scale)} :
       /\ SameDrawOutputs(out[1], r)
       /\ r.pvFinancingSOC # out[1].pvFinancingSOC /\ r.pvCapexSOC # out[1].pvCapexSOC
       /\ r.pvSurchargedIdcSOC # out[1].pvSurchargedIdcSOC
       /\ r.fvSurchargedCOD # out[1].fvSurchargedCOD

NoFinancing(r) == r.pvFinancingSOC = 0 /\ r.pvSurchargedIdcSOC = 0 /\ r.fvSurchargedCOD = 0

\* The project is all equity: targetGearing is 0, or clamps to 0.
AllEquity(i) == clampGearing(i) = 0

\* C30: with debt-only accrual and targetGearing = 0 (or clamped to 0) no
\* interest accrues in any period, so pvFinancingSOC = pvSurchargedIdcSOC =
\* fvSurchargedCOD = 0 for every rabFraction, and in steps 2 and 3 the RAB
\* toggle then has no effect on any field of the calculateLcoe result.
C30_AllEquityAccruesNothing ==
  /\ (Built /\ call.idcMode = "debt_only")
       => /\ AllEquity(inputs)
               => NoFinancing(out[1])
                    /\ ~InterestAccrues(inputs, call.inflationMode, "debt_only", call.rabFrac)
          /\ AllEquity(WithGearing(inputs, -Num(10)))
          /\ NoFinancing(buildConstructionPhase(WithGearing(inputs, -Num(10)),
                                                call.inflationMode, "debt_only", call.rabFrac))
  /\ (Calculated /\ call.step \in {2, 3} /\ AllEquity(inputs))
       => out[1] = calculateLcoe(inputs, call.step, [call.adv EXCEPT !.rabEnabled = ~@], << >>)

C30_Witness ==
  /\ Calculated /\ call.step = 3 /\ call.adv.rabEnabled /\ ~call.adv.turnkey
  /\ AllEquity(inputs) /\ TcOf(inputs) = MaxTc /\ NonDegenerate(inputs)
  /\ out[1].financingLcoe = 0 /\ out[1].surchargedIdcLcoe = 0 /\ out[1].occLcoe > 0
  /\ out[1] = WithoutRab

====
